---- MODULE Spec2Model ----
(***************************************************************************)
(* Model of Opm::PiecewiseLinearTwoPhaseMaterialParams and of              *)
(* Opm::gpuistl::make_view                                                 *)
(* (opm/material/fluidmatrixinteractions/                                  *)
(*  PiecewiseLinearTwoPhaseMaterialParams.hpp).                            *)
(*                                                                         *)
(* One parameter object `params` is followed through its life: it is       *)
(* constructed (default or six-sequence constructor), filled by the        *)
(* setters, finalized, read, and projected to a view by make_view.  The    *)
(* template argument VectorT is the variable `mutable`: TRUE for an owning *)
(* container of non-const elements, FALSE when the `if constexpr` of       *)
(* swapOrderIfPossibleThrowOtherwise_ selects the throwing branch.         *)
(* Scalars are small naturals; only their order and identity matter to     *)
(* the code modelled here.                                                 *)
(***************************************************************************)
EXTENDS Integers, Sequences, FiniteSets

VARIABLES pc, mutable, params, modified, op, pre, ret, thrown, view

vars == <<pc, mutable, params, modified, op, pre, ret, thrown, view>>

(* Bounds of the model. *)
MaxScalar == 2
MaxLen == 2

Scalar == 0..MaxScalar
\* the two extreme scalars
CoarseScalar == {0, MaxScalar}

SeqsOfLen(S, n) == [1..n -> S]
\* non-empty sample sequences over S
SamplesOver(S) == UNION {SeqsOfLen(S, n) : n \in 1..MaxLen}
Samples == SamplesOver(Scalar)
CoarseSamples == SamplesOver(CoarseScalar)

(***************************************************************************)
(* The object: six sequences and the flag of the base class.               *)
(***************************************************************************)
Table(SwPcwnSamples, pcwnSamples, SwKrwSamples, krwSamples, SwKrnSamples, krnSamples, fin) ==
    [SwPcwnSamples_ |-> SwPcwnSamples,
     SwKrwSamples_  |-> SwKrwSamples,
     SwKrnSamples_  |-> SwKrnSamples,
     pcwnSamples_   |-> pcwnSamples,
     krwSamples_    |-> krwSamples,
     krnSamples_    |-> krnSamples,
     finalized_     |-> fin]

\* the default constructor: six empty sequences, finalized_ = false
EmptyTable == Table(<<>>, <<>>, <<>>, <<>>, <<>>, <<>>, FALSE)

(***************************************************************************)
(* EnsureFinalized (opm/material/common/EnsureFinalized.hpp, not part of   *)
(* the sources at hand): finalize() sets the flag, check() fails unless    *)
(* the flag is set.                                                        *)
(***************************************************************************)
EnsureFinalized_finalize(t) == [t EXCEPT !.finalized_ = TRUE]

check(t) == t.finalized_

(***************************************************************************)
(* front() and back().  On an empty sequence they are undefined: the read  *)
(* yields any scalar (or the process dies, see `Dies`).                    *)
(***************************************************************************)
front(s) == IF Len(s) = 0 THEN Scalar ELSE {s[1]}

back(s) == IF Len(s) = 0 THEN Scalar ELSE {s[Len(s)]}

(***************************************************************************)
(* swapOrderIfPossibleThrowOtherwise_                                      *)
(***************************************************************************)
\* std::swap(s[a], s[b]), indices counted from 1
swap(s, a, b) == [s EXCEPT ![a] = s[b], ![b] = s[a]]

\* the loop run over the whole sequence instead of its first half
RECURSIVE SwapLoop_full(_, _, _)
SwapLoop_full(s, n, origSampleIdx) ==
    IF origSampleIdx < n
    THEN SwapLoop_full(swap(s, origSampleIdx + 1, n - origSampleIdx), n, origSampleIdx + 1)
    ELSE s

\* the loop of lines 253-258 on one of the two sequences: n is
\* swValues.size(), origSampleIdx runs from i while i < n / 2
RECURSIVE SwapLoop(_, _, _)
SwapLoop(s, n, origSampleIdx) ==
    IF origSampleIdx < n \div 2
    THEN SwapLoop(swap(s, origSampleIdx + 1, n - origSampleIdx), n, origSampleIdx + 1)
    ELSE s

Outcome(sw, val, res) == [sw |-> sw, val |-> val, res |-> res]

\* the mutable branch.  values[newSampleIdx] is out of range when values is
\* shorter than swValues and at least one swap happens: undefined, the
\* values read are garbage or the process dies.
SwapBranch(swValues, values) ==
    IF Len(values) >= Len(swValues) \/ Len(swValues) \div 2 = 0
    THEN {Outcome(SwapLoop(swValues, Len(swValues), 0),
                  SwapLoop(values, Len(swValues), 0), "ok")}
    ELSE {Outcome(SwapLoop(swValues, Len(swValues), 0), v, "ok")
             : v \in SeqsOfLen(Scalar, Len(values))}
         \cup {Outcome(swValues, values, "crash")}

\* the gate on the saturation values alone
Gate_sw(swValues, values) == {f > b : f \in front(swValues), b \in back(swValues)}

\* the test of line 249
Gate(swValues, values) == {f > b : f \in front(swValues), b \in back(values)}

\* reading front()/back() of an empty sequence may also end the process
Dies(s, sw, val) == IF Len(s) = 0 THEN {Outcome(sw, val, "crash")} ELSE {}

\* without the throwing branch
swapOrder_silent(mut, swValues, values) ==
    UNION {IF g /\ mut
           THEN SwapBranch(swValues, values)
           ELSE {Outcome(swValues, values, "ok")}
             : g \in Gate(swValues, values)}
    \cup Dies(swValues, swValues, values) \cup Dies(values, swValues, values)

swapOrderIfPossibleThrowOtherwise_(mut, swValues, values) ==
    UNION {IF g
           THEN IF mut
                THEN SwapBranch(swValues, values)
                ELSE {Outcome(swValues, values, "logic_error")}
           ELSE {Outcome(swValues, values, "ok")}
             : g \in Gate(swValues, values)}
    \cup Dies(swValues, swValues, values) \cup Dies(values, swValues, values)

\* the test with >= and with /= for >
Descending_ge(sw) == {f >= b : f \in front(sw), b \in back(sw)}

Descending_ne(sw) == {f # b : f \in front(sw), b \in back(sw)}

\* the test of lines 89, 92, 95
Descending(sw) == {f > b : f \in front(sw), b \in back(sw)}

\* one `if (Sw.front() > Sw.back()) swapOrderIfPossibleThrowOtherwise_(Sw, v)`
NormalizePair(mut, sw, val) ==
    UNION {IF d
           THEN swapOrderIfPossibleThrowOtherwise_(mut, sw, val)
           ELSE {Outcome(sw, val, "ok")}
             : d \in Descending(sw)}
    \cup Dies(sw, sw, val)

(***************************************************************************)
(* finalize(): the flag first, then the three pairs in order; an exception *)
(* (or the death of the process) ends it where it is.                      *)
(***************************************************************************)
Result(t, res) == [t |-> t, res |-> res]

finalize(mut, t) ==
    LET t0 == EnsureFinalized_finalize(t)
        O1 == {Result([t0 EXCEPT !.SwPcwnSamples_ = o.sw, !.pcwnSamples_ = o.val], o.res)
                  : o \in NormalizePair(mut, t0.SwPcwnSamples_, t0.pcwnSamples_)}
        O2 == UNION {IF r.res # "ok"
                     THEN {r}
                     ELSE {Result([r.t EXCEPT !.SwKrwSamples_ = o.sw, !.krwSamples_ = o.val], o.res)
                              : o \in NormalizePair(mut, r.t.SwKrwSamples_, r.t.krwSamples_)}
                       : r \in O1}
        O3 == UNION {IF r.res # "ok"
                     THEN {r}
                     ELSE {Result([r.t EXCEPT !.SwKrnSamples_ = o.sw, !.krnSamples_ = o.val], o.res)
                              : o \in NormalizePair(mut, r.t.SwKrnSamples_, r.t.krnSamples_)}
                       : r \in O2}
    IN  O3

\* the six-sequence constructor: the member initialisers, then finalize()
Construct(mut, SwPcwnSamples, pcwnSamples, SwKrwSamples, krwSamples, SwKrnSamples, krnSamples) ==
    finalize(mut, Table(SwPcwnSamples, pcwnSamples, SwKrwSamples, krwSamples,
                        SwKrnSamples, krnSamples, FALSE))

(***************************************************************************)
(* The accessors: check(), then the member.                                *)
(***************************************************************************)
\* without the call of check()
Read_nocheck(t, member) == [ok |-> TRUE, val |-> member]

Read(t, member) == IF check(t) THEN [ok |-> TRUE, val |-> member]
                   ELSE [ok |-> FALSE, val |-> <<>>]

SwKrwSamples(t) == Read(t, t.SwKrwSamples_)

SwKrnSamples(t) == Read(t, t.SwKrnSamples_)

SwPcwnSamples(t) == Read(t, t.SwPcwnSamples_)

pcwnSamples(t) == Read(t, t.pcwnSamples_)

krwSamples(t) == Read(t, t.krwSamples_)

krnSamples(t) == Read(t, t.krnSamples_)

Accessors == {"SwKrwSamples", "SwKrnSamples", "SwPcwnSamples",
              "pcwnSamples", "krwSamples", "krnSamples"}

Call(name, t) ==
    CASE name = "SwKrwSamples"  -> SwKrwSamples(t)
      [] name = "SwKrnSamples"  -> SwKrnSamples(t)
      [] name = "SwPcwnSamples" -> SwPcwnSamples(t)
      [] name = "pcwnSamples"   -> pcwnSamples(t)
      [] name = "krwSamples"    -> krwSamples(t)
      [] name = "krnSamples"    -> krnSamples(t)

(***************************************************************************)
(* make_view: six views through the accessors of params, then the          *)
(* six-sequence constructor of the table over the view type.               *)
(***************************************************************************)
\* with the views of pcwnSamples and krwSamples exchanged
make_view_crosswired(t) ==
    IF ~check(t)
    THEN {Result(EmptyTable, "not_finalized")}
    ELSE Construct(FALSE, SwPcwnSamples(t).val, krwSamples(t).val, SwKrwSamples(t).val,
                   pcwnSamples(t).val, SwKrnSamples(t).val, krnSamples(t).val)

make_view(t) ==
    IF ~check(t)
    THEN {Result(EmptyTable, "not_finalized")}
    ELSE LET SwPcwn == SwPcwnSamples(t).val
             pcwn   == pcwnSamples(t).val
             SwKrw  == SwKrwSamples(t).val
             krw    == krwSamples(t).val
             SwKrn  == SwKrnSamples(t).val
             krn    == krnSamples(t).val
         IN  Construct(FALSE, SwPcwn, pcwn, SwKrw, krw, SwKrn, krn)

(***************************************************************************)
(* The state machine.                                                      *)
(*   pc      "none" before construction, "live" while the object exists,   *)
(*           "failed" when its constructor threw, "crashed" when undefined *)
(*           behaviour ended the process                                   *)
(*   modified  a setter has run since the last finalize() began            *)
(*   op      the last operation                                            *)
(*   pre     the six sequences as they were when the last finalize()       *)
(*           (or constructor) began                                        *)
(*   ret     the sequence the last accessor returned                       *)
(*   thrown  how the last operation ended                                  *)
(*   view    the table the last make_view returned                         *)
(***************************************************************************)
Init ==
    /\ pc = "none"
    /\ mutable \in BOOLEAN
    /\ params = EmptyTable
    /\ modified = FALSE
    /\ op = "none"
    /\ pre = EmptyTable
    /\ ret = <<>>
    /\ thrown = "none"
    /\ view = EmptyTable

After(res) == CASE res = "ok"          -> "live"
                [] res = "logic_error" -> "failed"
                [] res = "crash"       -> "crashed"

DefaultCtor ==
    /\ pc = "none"
    /\ pc' = "live"
    /\ params' = EmptyTable
    /\ modified' = FALSE
    /\ op' = "default_ctor"
    /\ pre' = EmptyTable
    /\ ret' = <<>>
    /\ thrown' = "none"
    /\ view' = EmptyTable
    /\ UNCHANGED mutable

\* the six-sequence constructor
FullCtor(a, b, c, d, e, f) ==
    /\ pc = "none"
    /\ \E r \in Construct(mutable, a, b, c, d, e, f) :
          /\ pc' = After(r.res)
          /\ params' = r.t
          /\ thrown' = IF r.res = "ok" THEN "none" ELSE r.res
    /\ modified' = FALSE
    /\ op' = "ctor"
    /\ pre' = Table(a, b, c, d, e, f, FALSE)
    /\ ret' = <<>>
    /\ view' = EmptyTable
    /\ UNCHANGED mutable

\* explicit finalize() on the live object; a logic_error leaves the object
\* alive with finalized_ set
Finalize ==
    /\ pc = "live"
    /\ \E r \in finalize(mutable, params) :
          /\ pc' = IF r.res = "crash" THEN "crashed" ELSE "live"
          /\ params' = r.t
          /\ thrown' = IF r.res = "ok" THEN "none" ELSE r.res
    /\ modified' = FALSE
    /\ op' = "finalize"
    /\ pre' = params
    /\ ret' = <<>>
    /\ view' = EmptyTable
    /\ UNCHANGED mutable

\* what an operation that is neither a constructor nor finalize() leaves
\* of the records of the last operation
Forget == pre' = EmptyTable /\ view' = EmptyTable

\* the setters: assert equal sizes, resize both members, copy.  They exist
\* only for a container that can be resized and written.
setPcnwSamples(SwValues, values) ==
    /\ pc = "live" /\ mutable
    /\ Len(SwValues) = Len(values)
    /\ params' = [params EXCEPT !.SwPcwnSamples_ = SwValues, !.pcwnSamples_ = values]
    /\ modified' = TRUE
    /\ op' = "setPcnwSamples"
    /\ ret' = <<>>
    /\ thrown' = "none"
    /\ Forget
    /\ UNCHANGED <<pc, mutable>>

\* a setter that takes the table back to the unfinalized state
setKrwSamples_unfinal(SwValues, values) ==
    /\ pc = "live" /\ mutable
    /\ Len(SwValues) = Len(values)
    /\ params' = [params EXCEPT !.SwKrwSamples_ = SwValues, !.krwSamples_ = values,
                                !.finalized_ = FALSE]
    /\ modified' = TRUE
    /\ op' = "setKrwSamples"
    /\ ret' = <<>>
    /\ thrown' = "none"
    /\ Forget
    /\ UNCHANGED <<pc, mutable>>

setKrwSamples(SwValues, values) ==
    /\ pc = "live" /\ mutable
    /\ Len(SwValues) = Len(values)
    /\ params' = [params EXCEPT !.SwKrwSamples_ = SwValues, !.krwSamples_ = values]
    /\ modified' = TRUE
    /\ op' = "setKrwSamples"
    /\ ret' = <<>>
    /\ thrown' = "none"
    /\ Forget
    /\ UNCHANGED <<pc, mutable>>

setKrnSamples(SwValues, values) ==
    /\ pc = "live" /\ mutable
    /\ Len(SwValues) = Len(values)
    /\ params' = [params EXCEPT !.SwKrnSamples_ = SwValues, !.krnSamples_ = values]
    /\ modified' = TRUE
    /\ op' = "setKrnSamples"
    /\ ret' = <<>>
    /\ thrown' = "none"
    /\ Forget
    /\ UNCHANGED <<pc, mutable>>

\* a call of one of the six accessors
Access(name) ==
    /\ pc = "live"
    /\ ret' = Call(name, params).val
    /\ thrown' = IF Call(name, params).ok THEN "none" ELSE "not_finalized"
    /\ op' = name
    /\ Forget
    /\ UNCHANGED <<pc, mutable, params, modified>>

\* the members that do nothing: serializeOp is empty, SnTrapped, SnStranded
\* and SwTrapped return 0.0, update returns false
Stub(name) ==
    /\ pc = "live"
    /\ op' = name
    /\ ret' = <<>>
    /\ thrown' = "none"
    /\ Forget
    /\ UNCHANGED <<pc, mutable, params, modified>>

serializeOp == Stub("serializeOp")

SnTrapped == Stub("SnTrapped")

SnStranded == Stub("SnStranded")

SwTrapped == Stub("SwTrapped")

update == Stub("update")

\* make_view(params); an exception leaves params as it is
MakeView ==
    /\ pc = "live"
    /\ \E r \in make_view(params) :
          /\ pc' = IF r.res = "crash" THEN "crashed" ELSE "live"
          /\ view' = IF r.res = "ok" THEN r.t ELSE EmptyTable
          /\ thrown' = IF r.res = "ok" THEN "none" ELSE r.res
    /\ op' = "make_view"
    /\ pre' = EmptyTable
    /\ ret' = <<>>
    /\ UNCHANGED <<mutable, params, modified>>

(***************************************************************************)
(* Inputs.                                                                 *)
(***************************************************************************)
EqualLength(S) == {p \in S \X S : Len(p[1]) = Len(p[2])}

\* tables of n samples between the extreme scalars: rising at the last
\* sample, falling after the first, flat
Up(n) == [i \in 1..n |-> IF i = n THEN MaxScalar ELSE 0]

Down(n) == [i \in 1..n |-> IF i = 1 THEN MaxScalar ELSE 0]

Flat(n) == [i \in 1..n |-> 0]

\* a saturation table of either orientation with a value table whose last
\* sample is above or below the first saturation
RampPairs(n) == {Up(n), Down(n), Flat(n)} \X {Up(n), Down(n)}

\* the ramp pairs of up to MaxLen samples
LifePairs == UNION {RampPairs(n) : n \in 1..MaxLen}

\* all pairs of up to MaxLen samples
RichPairs == EqualLength(Samples)

(***************************************************************************)
(* Spec: the life of a table whose callers supply equal-length pairs (the  *)
(* ramp pairs).                                                            *)
(***************************************************************************)
CtorRamps ==
    /\ pc = "none"
    /\ \E p1 \in LifePairs, p2 \in LifePairs, p3 \in LifePairs :
          FullCtor(p1[1], p1[2], p2[1], p2[2], p3[1], p3[2])

SetPcnw == pc = "live" /\ mutable /\ \E p \in LifePairs : setPcnwSamples(p[1], p[2])

SetKrw == pc = "live" /\ mutable /\ \E p \in LifePairs : setKrwSamples(p[1], p[2])

SetKrn == pc = "live" /\ mutable /\ \E p \in LifePairs : setKrnSamples(p[1], p[2])

Reads == \E name \in Accessors : Access(name)

Next ==
    \/ DefaultCtor
    \/ CtorRamps
    \/ SetPcnw
    \/ SetKrw
    \/ SetKrn
    \/ Finalize
    \/ Reads
    \/ serializeOp
    \/ SnTrapped
    \/ SnStranded
    \/ SwTrapped
    \/ update
    \/ MakeView

Spec == Init /\ [][Next]_vars

(***************************************************************************)
(* SpecNorm: the ordering normalisation.  The six-sequence constructor is  *)
(* given one pair of RichPairs, in any of the three places, and two ramp   *)
(* pairs of MaxLen samples; finalize() may then run again.                 *)
(***************************************************************************)
CtorRich ==
    /\ pc = "none"
    /\ \E p \in RichPairs, q1 \in RampPairs(MaxLen), q2 \in RampPairs(MaxLen) :
          \/ FullCtor(p[1], p[2], q1[1], q1[2], q2[1], q2[2])
          \/ FullCtor(q1[1], q1[2], p[1], p[2], q2[1], q2[2])
          \/ FullCtor(q1[1], q1[2], q2[1], q2[2], p[1], p[2])

NextNorm == CtorRich \/ Finalize

SpecNorm == Init /\ [][NextNorm]_vars

(***************************************************************************)
(* SpecUnchecked: the six-sequence constructor given sequences of any      *)
(* lengths, which it does not compare.                                     *)
(***************************************************************************)
CtorUnchecked ==
    /\ pc = "none"
    /\ \E a \in CoarseSamples, b \in CoarseSamples, c \in CoarseSamples,
          d \in CoarseSamples, e \in CoarseSamples, f \in CoarseSamples :
          FullCtor(a, b, c, d, e, f)

NextUnchecked == CtorUnchecked \/ Finalize \/ MakeView

SpecUnchecked == Init /\ [][NextUnchecked]_vars

(***************************************************************************)
(* Vocabulary of the properties.                                           *)
(***************************************************************************)
\* the saturation and the value sequence of pair k: 1 Pcwn, 2 Krw, 3 Krn
X(t, k) == CASE k = 1 -> t.SwPcwnSamples_
             [] k = 2 -> t.SwKrwSamples_
             [] k = 3 -> t.SwKrnSamples_

Y(t, k) == CASE k = 1 -> t.pcwnSamples_
             [] k = 2 -> t.krwSamples_
             [] k = 3 -> t.krnSamples_

Pair == 1..3

First(s) == s[1]

Last(s) == s[Len(s)]

\* element i of the result is element n + 1 - i of s
Reversed(s) == [i \in 1..Len(s) |-> s[Len(s) + 1 - i]]

AllNonEmpty(t) == \A k \in Pair : Len(X(t, k)) > 0 /\ Len(Y(t, k)) > 0

NonEmptyEqual(t) == \A k \in Pair : Len(X(t, k)) > 0 /\ Len(X(t, k)) = Len(Y(t, k))

SameSequences(t, u) == \A k \in Pair : X(t, k) = X(u, k) /\ Y(t, k) = Y(u, k)

\* finalize() was the last operation, by itself or inside the constructor;
\* pre holds the sequences it began with
Ran == op \in {"ctor", "finalize"}

SetterOps == {"setPcnwSamples", "setKrwSamples", "setKrnSamples"}

(***************************************************************************)
(* C1.  On a mutable table with non-empty equal-length pairs, finalize()   *)
(* leaves every pair whose saturation sequence began descending (first >   *)
(* last) reversed in lockstep: x[i], y[i] are the original x[n-1-i],       *)
(* y[n-1-i], and the saturation sequence ends with first <= last.          *)
(***************************************************************************)
C1_DescendingReversed ==
    (Ran /\ mutable /\ NonEmptyEqual(pre)) =>
        \A k \in Pair :
            First(X(pre, k)) > Last(X(pre, k)) =>
                /\ X(params, k) = Reversed(X(pre, k))
                /\ Y(params, k) = Reversed(Y(pre, k))
                /\ First(X(params, k)) <= Last(X(params, k))

(***************************************************************************)
(* C2.  For a mutable or immutable table given non-empty equal-length      *)
(* pairs whose three saturation sequences are ascending (first <= last),   *)
(* the constructor / finalize() raises no error and leaves all six         *)
(* sequences as supplied.                                                  *)
(***************************************************************************)
C2_AscendingUnchanged ==
    (Ran /\ NonEmptyEqual(pre) /\ \A k \in Pair : First(X(pre, k)) <= Last(X(pre, k))) =>
        /\ thrown = "none"
        /\ pc = "live"
        /\ SameSequences(params, pre)

C2_Witness ==
    /\ op = "ctor" /\ ~mutable /\ pc = "live" /\ thrown = "none"
    /\ \A k \in Pair : First(X(pre, k)) <= Last(X(pre, k))
    /\ pre.SwKrwSamples_ = <<0, 1>> /\ pre.krwSamples_ = <<2, 0>>
    /\ params.SwKrwSamples_ = <<0, 1>> /\ params.krwSamples_ = <<2, 0>>

(***************************************************************************)
(* C4.  On an immutable table with non-empty sequences, if some pair is    *)
(* descending (first > last) and passes the gate (saturation first > value *)
(* last), finalize() ends with a logic error, never normally, and the six  *)
(* sequences are as they were.                                             *)
(***************************************************************************)
C4_ImmutableThrows ==
    (/\ Ran /\ ~mutable /\ AllNonEmpty(pre)
     /\ \E k \in Pair : /\ First(X(pre, k)) > Last(X(pre, k))
                        /\ First(X(pre, k)) > Last(Y(pre, k))) =>
        /\ thrown = "logic_error"
        /\ pc # "live"
        /\ SameSequences(params, pre)

C4_Witness ==
    /\ op = "ctor" /\ ~mutable /\ thrown = "logic_error" /\ pc = "failed"
    /\ First(pre.SwPcwnSamples_) <= Last(pre.SwPcwnSamples_)
    /\ First(pre.SwKrwSamples_) <= Last(pre.SwKrwSamples_)
    /\ pre.SwKrnSamples_ = <<2, 1>> /\ pre.krnSamples_ = <<2, 0>>
    /\ SameSequences(params, pre)

C10_SecondFinalizeChangesNothing ==
    [][(/\ pc = "live" /\ mutable /\ params.finalized_ /\ ~modified
        /\ NonEmptyEqual(params) /\ op' = "finalize") =>
          SameSequences(params', params)]_vars

C10_Witness ==
    /\ op = "finalize" /\ pre.finalized_ /\ mutable /\ thrown = "none"
    /\ params.SwPcwnSamples_ = <<1, 2>> /\ params.pcwnSamples_ = <<1, 0>>
    /\ params.SwKrwSamples_ = <<2, 0>> /\ params.krwSamples_ = <<0, 2>>
    /\ SameSequences(params, pre)

(***************************************************************************)
(* C3.  While the table has not been finalized, whatever the setters have  *)
(* stored, each of the six accessors fails at the finalize guard and       *)
(* returns no sequence.                                                    *)
(***************************************************************************)
C3_UnfinalizedReadsFail ==
    (pc = "live" /\ ~params.finalized_) =>
        /\ \A name \in Accessors : ~Call(name, params).ok
        /\ op \in Accessors => (thrown = "not_finalized" /\ ret = <<>>)

C3_Witness ==
    /\ pc = "live" /\ ~params.finalized_ /\ modified
    /\ NonEmptyEqual(params)
    /\ params.krnSamples_ = <<0, 2>>
    /\ op = "krnSamples" /\ thrown = "not_finalized"

(***************************************************************************)
(* C5.  When make_view returns a view table, each of the view's six        *)
(* accessors returns the sequence that the accessor of the same name       *)
(* returns on the owning table.                                            *)
(***************************************************************************)
C5_ViewEqualsOwner ==
    (op = "make_view" /\ thrown = "none" /\ pc = "live") =>
        \A name \in Accessors :
            /\ Call(name, view).ok
            /\ Call(name, params).ok
            /\ Call(name, view).val = Call(name, params).val

C5_Witness ==
    /\ op = "make_view" /\ thrown = "none" /\ pc = "live"
    /\ view.SwPcwnSamples_ = <<0, 2>> /\ view.pcwnSamples_ = <<2, 0>>
    /\ view.SwKrwSamples_ = <<0>> /\ view.krwSamples_ = <<2>>
    /\ view.SwKrnSamples_ = <<0, 0>> /\ view.krnSamples_ = <<0, 2>>

(***************************************************************************)
(* C6.  As claimed: make_view of a finalized owning table with non-empty   *)
(* equal-length pairs never raises.                                        *)
(***************************************************************************)
C6_MakeViewNeverFails ==
    (op = "make_view" /\ params.finalized_ /\ NonEmptyEqual(params)) =>
        thrown = "none"

(***************************************************************************)
(* C6, amended.  make_view of a finalized owning table with non-empty      *)
(* equal-length pairs, on which no setter has run since its last           *)
(* finalize(), raises nothing and returns a view table.                    *)
(***************************************************************************)
C6_MakeViewOfNormalized ==
    (op = "make_view" /\ params.finalized_ /\ ~modified /\ NonEmptyEqual(params)) =>
        /\ thrown = "none"
        /\ pc = "live"
        /\ view.finalized_

C6_Witness ==
    /\ op = "make_view" /\ params.finalized_ /\ ~modified /\ thrown = "none"
    /\ NonEmptyEqual(params)
    /\ params.SwPcwnSamples_ = <<2, 0>> /\ params.pcwnSamples_ = <<0, 2>>
    /\ view.SwPcwnSamples_ = <<2, 0>> /\ view.finalized_

(***************************************************************************)
(* C7.  In every state of a live table the saturation and the value        *)
(* sequence of each pair have the same length.                             *)
(***************************************************************************)
C7_PairLengthsEqual ==
    pc = "live" => \A k \in Pair : Len(X(params, k)) = Len(Y(params, k))

(***************************************************************************)
(* C8.  As claimed: once the table is finalized, no operation changes its  *)
(* six sequences or its finalized state.                                   *)
(***************************************************************************)
C8_ReadOnlyAfterFinalize ==
    [][(pc = "live" /\ params.finalized_) => params' = params]_vars

(***************************************************************************)
(* C8, amended.  Once the table is finalized it stays finalized, and its   *)
(* six sequences change only in a setter call or in the finalize() that    *)
(* follows one; update, the trapped-saturation queries, serializeOp, the   *)
(* accessors, make_view and a repeated finalize() change nothing.          *)
(***************************************************************************)
C8_OnlySettersRewrite ==
    [][(pc = "live" /\ params.finalized_) =>
          /\ params'.finalized_
          /\ \/ params' = params
             \/ op' \in SetterOps
             \/ modified /\ op' = "finalize"]_vars

C8_Witness ==
    /\ pc = "live" /\ params.finalized_ /\ ~modified
    /\ op = "update"
    /\ NonEmptyEqual(params)
    /\ params.SwKrwSamples_ = <<2, 0>> /\ params.krwSamples_ = <<0, 2>>
====
